---- MODULE Spec2Model ----
(***************************************************************************)
(* Model of healthcheck.py: the probe scheduler thread                     *)
(* (ping_minecraft_server_main), the RakNet unconnected-ping probe         *)
(* (ping_bedrock, create_unconnected_ping_frame), the three Prometheus     *)
(* metrics (HealthcheckResult), the signal handler and main.               *)
(*                                                                         *)
(* Time is counted in ticks of one polling sleep (time.sleep(0.1)), so the *)
(* probe period 1.0 s and the socket timeout 1.0 s are 10 ticks each.      *)
(* The scheduler's own statements take no time: time passes only while the *)
(* thread is blocked in time.sleep or sock.recvfrom, or after it ended.    *)
(* Floating-point rounding of the countdown is not modelled.               *)
(***************************************************************************)
EXTENDS Integers, Sequences, FiniteSets, TLC

\* ---------------------------------------------------------------- constants
\* Milliseconds per tick: time.sleep(0.1).
TickMs == 100
\* time.sleep(0.1), in ticks.
SleepTicks == 1
\* time_since_last_ping = 1.0, in ticks.
PeriodTicks == 10
\* ping_bedrock(..., timeout: float = 1.0), in ticks.
TimeoutTicks == 10
\* pong_packet[0] == 0x1C
PONG == 28
\* packet[0] = 0x01
PING == 1
\* bytearray(33)
FrameLen == 33

\* MAGIC = bytes.fromhex("00ffff00fefefefefdfdfdfd12345678")
MAGIC == <<0, 255, 255, 0, 254, 254, 254, 254, 253, 253, 253, 253, 18, 52, 86, 120>>

\* ------------------------------------------------------------------- bounds
\* Last tick of the monotonic clock explored by Spec.
MaxClock == 11
\* Wall-clock reading (in ticks) when the process starts.
WallBase == 100
\* Size (in ticks) of one wall-clock adjustment by the operator / NTP; the
\* wall clock is explored up to one such step ahead of or behind the monotonic one.
ClockJump == 3
\* Longest reply datagram explored.
MaxReplyLen == 1
\* Run time of the unreachable-target scenario, in milliseconds (5.05 s).
ScenarioMs == 5050
\* Longest delay (in ticks) of a wakeup from time.sleep(0.1) explored by
\* SpecJitter: more than one period.
MaxOversleep == 12
\* Last tick of the monotonic clock explored by SpecJitter.
JitterClock == 32

\* Byte values a reply datagram is built from.
SampleBytes == {0, PING, PONG}

RECURSIVE SeqsUpTo(_, _)
SeqsUpTo(S, n) ==
    IF n = 0 THEN {<<>>}
    ELSE LET shorter == SeqsUpTo(S, n - 1)
         IN shorter \cup {Append(s, b) : s \in {t \in shorter : Len(t) = n - 1}, b \in S}

\* The datagrams sock.recvfrom(1024) may return, the empty datagram included.
Replies == SeqsUpTo(SampleBytes, MaxReplyLen)

\* secrets.token_bytes(8): two sample nonces.
Nonces == {[i \in 1..8 |-> 0], [i \in 1..8 |-> 255]}

\* A local that holds no buffer (not a byte string: bytes are 0..255).
NoPacket == <<-1>>

\* ------------------------------------------------------------------- codec
RECURSIVE LittleEndian(_, _)
\* struct.pack "<Q" / int.to_bytes(n, "little") of a non-negative value.
LittleEndian(v, n) ==
    IF n = 0 THEN <<>> ELSE <<v % 256>> \o LittleEndian(v \div 256, n - 1)

RECURSIVE BigEndian(_, _)
\* int.to_bytes(n, "big") of a non-negative value.
BigEndian(v, n) ==
    IF n = 0 THEN <<>> ELSE BigEndian(v \div 256, n - 1) \o <<v % 256>>

\* struct.pack_into("<Q", ...) raises struct.error for a value outside
\* 0..2^64-1; the values of the model stay far below 2^64, so only the
\* negative side can happen here.
PackRaises(v) == v < 0

\* create_unconnected_ping_frame(start_time), reading time.time()*1000 = nowMs
\* and secrets.token_bytes(8) = nonce.  Defined where PackRaises is false.
create_unconnected_ping_frame(start, nowMs, nonce) ==
    <<PING>> \o LittleEndian(nowMs - start, 8) \o MAGIC \o nonce

\* build_ping_packet(), reading int(time.time()) = nowMs \div 1000.
build_ping_packet(nowMs, nonce) ==
    <<PING>> \o BigEndian(nowMs \div 1000, 8) \o MAGIC \o nonce

\* ------------------------------------------------------------------- state
VARIABLES
    mono,                  \* time.monotonic(), in ticks
    wall,                  \* time.time(), in ticks
    pc,                    \* position of the scheduler thread
    start_time,            \* local of ping_minecraft_server_main (ms)
    time_since_last_ping,  \* the countdown (ticks)
    last_time,             \* monotonic reading of the previous wakeup
    deadline,              \* when the blocking call in progress returns
    attempt_counter,       \* minecraft:healthcheck:attempt
    healthy_gauge,         \* minecraft:healthcheck:healthy
    unhealthy_gauge,       \* minecraft:healthcheck:unhealthy
    outcomes,              \* completed mark_healthy + mark_unhealthy calls
    healthy,               \* local `healthy` of the loop body
    exc,                   \* exception in flight in the scheduler thread
    outcome,               \* how the probe of this tick ended
    sockOpen,              \* the probe socket is open
    ping_packet,           \* frame built and not yet given to sendto
    pong_packet,           \* datagram received and not yet examined
    shutdown,              \* the shutdown Event
    sigPc,                 \* scheduler position when shutdown.set() ran
    mainPc,                \* position of the main thread
    serverUp,              \* the metrics HTTP server is serving
    scraped,               \* what the last metrics scrape read
    probe_started_at,      \* monotonic reading at the latest mark_attempt
    slept                  \* a time.sleep(0.1) has returned since then

vars == <<mono, wall, pc, start_time, time_since_last_ping,
          last_time, deadline, attempt_counter, healthy_gauge, unhealthy_gauge,
          outcomes, healthy, exc, outcome, sockOpen, ping_packet, pong_packet,
          shutdown, sigPc, mainPc, serverUp, scraped, probe_started_at, slept>>

clockVars == <<mono, wall>>
loopVars == <<start_time, time_since_last_ping, last_time, deadline>>
sinkVars == <<attempt_counter, healthy_gauge, unhealthy_gauge, outcomes>>
probeVars == <<healthy, exc, outcome, sockOpen, ping_packet, pong_packet>>
mainVars == <<shutdown, sigPc, mainPc, serverUp>>
histVars == <<probe_started_at, slept>>

\* State when main() has installed the handlers, started the metrics server
\* and started the scheduler thread, which has not run a statement yet.
Init ==
    /\ mono = 0
    /\ wall = WallBase
    /\ pc = "start"
    /\ start_time = 0
    /\ time_since_last_ping = 0
    /\ last_time = 0
    /\ deadline = 0
    /\ attempt_counter = 0
    /\ healthy_gauge = 0
    /\ unhealthy_gauge = 0
    /\ outcomes = 0
    /\ healthy = "unset"
    /\ exc = "none"
    /\ outcome = "none"
    /\ sockOpen = FALSE
    /\ ping_packet = NoPacket
    /\ pong_packet = NoPacket
    /\ shutdown = FALSE
    /\ sigPc = "unset"
    /\ mainPc = "wait"
    /\ serverUp = TRUE
    /\ scraped = <<-1, -1, 0>>
    /\ probe_started_at = -1
    /\ slept = FALSE

ProcessAlive == mainPc \notin {"exit0", "exit1"}
ThreadEnded == pc \in {"done", "crashed"}


\* ------------------------------------------------- scheduler thread: loop
\* ThreadStart with the countdown starting at the period
\* (time_since_last_ping = 1.0): the first probe waits one period.
ThreadStart_FullCountdown ==
    /\ ProcessAlive
    /\ pc = "start"
    /\ start_time' = wall * TickMs
    /\ time_since_last_ping' = PeriodTicks
    /\ last_time' = mono
    /\ pc' = "while"
    /\ UNCHANGED <<clockVars, deadline, sinkVars, probeVars, mainVars, scraped, histVars>>

\* start_time = int(time.time() * 1000); time_since_last_ping = 0.0;
\* last_time = time.monotonic()
ThreadStart ==
    /\ ProcessAlive
    /\ pc = "start"
    /\ start_time' = wall * TickMs
    /\ time_since_last_ping' = 0
    /\ last_time' = mono
    /\ pc' = "while"
    /\ UNCHANGED <<clockVars, deadline, sinkVars, probeVars, mainVars, scraped, histVars>>

\* LoopTest as `while True:`: the shutdown event is never looked at.
LoopTest_IgnoresShutdown ==
    /\ ProcessAlive
    /\ pc = "while"
    /\ pc' = "body"
    /\ UNCHANGED <<clockVars, loopVars, sinkVars, probeVars, mainVars, scraped, histVars>>

\* while not shutdown.is_set():
LoopTest ==
    /\ ProcessAlive
    /\ pc = "while"
    /\ pc' = IF shutdown THEN "done" ELSE "body"
    /\ UNCHANGED <<clockVars, loopVars, sinkVars, probeVars, mainVars, scraped, histVars>>

\* Countdown that advances the countdown by the period instead of resetting
\* it (time_since_last_ping += 1.0): missed periods are caught up.
Countdown_CatchUp ==
    /\ ProcessAlive
    /\ pc = "body"
    /\ LET now == mono
           left == time_since_last_ping - (now - last_time)
       IN /\ last_time' = now
          /\ IF left <= 0
                THEN time_since_last_ping' = left + PeriodTicks /\ pc' = "attempt"
                ELSE time_since_last_ping' = left /\ pc' = "sleep"
    /\ UNCHANGED <<clockVars, start_time, deadline, sinkVars, probeVars,
                   mainVars, scraped, histVars>>

\* now = time.monotonic(); time_since_last_ping -= now - last_time;
\* last_time = now; if time_since_last_ping <= 0.0: time_since_last_ping = 1.0
Countdown ==
    /\ ProcessAlive
    /\ pc = "body"
    /\ LET now == mono
           left == time_since_last_ping - (now - last_time)
       IN /\ last_time' = now
          /\ IF left <= 0
                THEN time_since_last_ping' = PeriodTicks /\ pc' = "attempt"
                ELSE time_since_last_ping' = left /\ pc' = "sleep"
    /\ UNCHANGED <<clockVars, start_time, deadline, sinkVars, probeVars,
                   mainVars, scraped, histVars>>

\* The loop without mark_attempt() before the probe: the counter is not
\* raised when the probe starts.
MarkAttempt_NotCounted ==
    /\ ProcessAlive
    /\ pc = "attempt"
    /\ probe_started_at' = mono
    /\ slept' = FALSE
    /\ pc' = "socket"
    /\ UNCHANGED <<clockVars, loopVars, sinkVars, probeVars, mainVars, scraped>>

\* healthcheck_result.mark_attempt()
MarkAttempt ==
    /\ ProcessAlive
    /\ pc = "attempt"
    /\ attempt_counter' = attempt_counter + 1
    /\ probe_started_at' = mono
    /\ slept' = FALSE
    /\ pc' = "socket"
    /\ UNCHANGED <<clockVars, loopVars, healthy_gauge, unhealthy_gauge, outcomes,
                   probeVars, mainVars, scraped>>

\* --------------------------------------------- scheduler thread: ping_bedrock
\* sock = socket.socket(AF_INET, SOCK_DGRAM); sock.settimeout(timeout)
OpenSocket ==
    /\ ProcessAlive
    /\ pc = "socket"
    /\ sockOpen' = TRUE
    /\ healthy' = "unset"
    /\ outcome' = "pending"
    /\ pc' = "build"
    /\ UNCHANGED <<clockVars, loopVars, sinkVars, exc, ping_packet, pong_packet,
                   mainVars, scraped, histVars>>

\* ping_packet = create_unconnected_ping_frame(start_time)
BuildFrame ==
    /\ ProcessAlive
    /\ pc = "build"
    /\ LET nowMs == wall * TickMs
       IN IF PackRaises(nowMs - start_time)
             THEN /\ exc' = "struct.error"
                  /\ outcome' = "build_error"
                  /\ pc' = "finally"
                  /\ UNCHANGED ping_packet
             ELSE /\ \E nonce \in Nonces :
                        ping_packet' = create_unconnected_ping_frame(start_time, nowMs, nonce)
                  /\ pc' = "send"
                  /\ UNCHANGED <<exc, outcome>>
    /\ UNCHANGED <<clockVars, loopVars, sinkVars, healthy, sockOpen, pong_packet,
                   mainVars, scraped, histVars>>

\* sock.sendto(ping_packet, (host, port)) returns; recvfrom starts to wait
SendOk ==
    /\ ProcessAlive
    /\ pc = "send"
    /\ deadline' = mono + TimeoutTicks
    /\ ping_packet' = NoPacket
    /\ pc' = "recv"
    /\ UNCHANGED <<clockVars, start_time, time_since_last_ping, last_time, sinkVars,
                   healthy, exc, outcome, sockOpen, pong_packet, mainVars, scraped, histVars>>

\* How an exception of ping_bedrock is told apart afterwards.
OutcomeOf(e) == IF e = "ConnectionRefusedError" THEN "refused" ELSE "fault"

\* sock.sendto raises e: ConnectionRefusedError, or another OSError
\* (name resolution, permission, network unreachable)
SendRaises(e) ==
    /\ ProcessAlive
    /\ pc = "send"
    /\ exc' = e
    /\ outcome' = OutcomeOf(e)
    /\ ping_packet' = NoPacket
    /\ pc' = "finally"
    /\ UNCHANGED <<clockVars, loopVars, sinkVars, healthy, sockOpen, pong_packet,
                   mainVars, scraped, histVars>>

\* pong_packet, _ = sock.recvfrom(1024) returns a datagram before the timeout
RecvReply ==
    /\ ProcessAlive
    /\ pc = "recv"
    /\ mono < deadline
    /\ \E r \in Replies : pong_packet' = r
    /\ pc' = "check"
    /\ UNCHANGED <<clockVars, loopVars, sinkVars, healthy, exc, outcome, sockOpen,
                   ping_packet, mainVars, scraped, histVars>>

\* sock.recvfrom raises e before the timeout (ICMP port unreachable gives
\* ConnectionRefusedError)
RecvRaises(e) ==
    /\ ProcessAlive
    /\ pc = "recv"
    /\ mono < deadline
    /\ exc' = e
    /\ outcome' = OutcomeOf(e)
    /\ pc' = "finally"
    /\ UNCHANGED <<clockVars, loopVars, sinkVars, healthy, sockOpen, ping_packet,
                   pong_packet, mainVars, scraped, histVars>>

\* recvfrom on a socket without sock.settimeout(timeout): it never times out.
RecvTimeout_Never ==
    /\ ProcessAlive
    /\ pc = "recv"
    /\ FALSE
    /\ UNCHANGED vars

\* sock.recvfrom raises TimeoutError (socket.timeout) when the timeout expires
RecvTimeout ==
    /\ ProcessAlive
    /\ pc = "recv"
    /\ mono = deadline
    /\ exc' = "TimeoutError"
    /\ outcome' = "timeout"
    /\ pc' = "finally"
    /\ UNCHANGED <<clockVars, loopVars, sinkVars, healthy, sockOpen, ping_packet,
                   pong_packet, mainVars, scraped, histVars>>

\* pong_packet[0] == 0x1C; indexing an empty bytes object raises IndexError
is_pong(buf) == buf[1] = PONG

\* if pong_packet[0] == 0x1C: return True / return False
CheckPong ==
    /\ ProcessAlive
    /\ pc = "check"
    /\ IF Len(pong_packet) = 0
          THEN /\ exc' = "IndexError"
               /\ outcome' = "empty_reply"
               /\ UNCHANGED healthy
          ELSE /\ healthy' = IF is_pong(pong_packet) THEN "True" ELSE "False"
               /\ outcome' = IF is_pong(pong_packet) THEN "pong" ELSE "other_reply"
               /\ UNCHANGED exc
    /\ pong_packet' = NoPacket
    /\ pc' = "finally"
    /\ UNCHANGED <<clockVars, loopVars, sinkVars, sockOpen, ping_packet, mainVars,
                   scraped, histVars>>

\* ping_bedrock without try/finally: sock.close() runs on a normal return only.
CloseSocket_OnlyOnReturn ==
    /\ ProcessAlive
    /\ pc = "finally"
    /\ sockOpen' = (exc # "none")
    /\ pc' = IF exc = "none" THEN "result" ELSE "except"
    /\ UNCHANGED <<clockVars, loopVars, sinkVars, healthy, exc, outcome, ping_packet,
                   pong_packet, mainVars, scraped, histVars>>

\* finally: sock.close(); then ping_bedrock returns or re-raises
CloseSocket ==
    /\ ProcessAlive
    /\ pc = "finally"
    /\ sockOpen' = FALSE
    /\ pc' = IF exc = "none" THEN "result" ELSE "except"
    /\ UNCHANGED <<clockVars, loopVars, sinkVars, healthy, exc, outcome, ping_packet,
                   pong_packet, mainVars, scraped, histVars>>

\* ------------------------------------- scheduler thread: outcome of the tick
\* ExceptHandler without its except clause: every exception ends the thread.
ExceptHandler_CatchNothing ==
    /\ ProcessAlive
    /\ pc = "except"
    /\ pc' = "crashed"
    /\ UNCHANGED <<clockVars, loopVars, sinkVars, probeVars, mainVars, scraped, histVars>>

\* except ConnectionRefusedError: healthy = False; any other exception leaves
\* ping_minecraft_server_main and ends the thread
ExceptHandler ==
    /\ ProcessAlive
    /\ pc = "except"
    /\ IF exc = "ConnectionRefusedError"
          THEN /\ healthy' = "False"
               /\ exc' = "none"
               /\ pc' = "result"
          ELSE /\ pc' = "crashed"
               /\ UNCHANGED <<healthy, exc>>
    /\ UNCHANGED <<clockVars, loopVars, sinkVars, outcome, sockOpen, ping_packet,
                   pong_packet, mainVars, scraped, histVars>>

\* if healthy: mark_healthy(): self.healthy_gauge.set(1)
MarkHealthySetHealthy ==
    /\ ProcessAlive
    /\ pc = "result"
    /\ healthy = "True"
    /\ healthy_gauge' = 1
    /\ pc' = "mark_healthy_2"
    /\ UNCHANGED <<clockVars, loopVars, attempt_counter, unhealthy_gauge, outcomes,
                   probeVars, mainVars, scraped, histVars>>

\* mark_healthy(): self.unhealthy_gauge.set(0)
MarkHealthySetUnhealthy ==
    /\ ProcessAlive
    /\ pc = "mark_healthy_2"
    /\ unhealthy_gauge' = 0
    /\ outcomes' = outcomes + 1
    /\ pc' = "sleep"
    /\ UNCHANGED <<clockVars, loopVars, attempt_counter, healthy_gauge, probeVars,
                   mainVars, scraped, histVars>>

\* else: mark_unhealthy(): self.healthy_gauge.set(0)
MarkUnhealthySetHealthy ==
    /\ ProcessAlive
    /\ pc = "result"
    /\ healthy = "False"
    /\ healthy_gauge' = 0
    /\ pc' = "mark_unhealthy_2"
    /\ UNCHANGED <<clockVars, loopVars, attempt_counter, unhealthy_gauge, outcomes,
                   probeVars, mainVars, scraped, histVars>>

\* mark_unhealthy(): self.unhealthy_gauge.set(1)
MarkUnhealthySetUnhealthy ==
    /\ ProcessAlive
    /\ pc = "mark_unhealthy_2"
    /\ unhealthy_gauge' = 1
    /\ outcomes' = outcomes + 1
    /\ pc' = "sleep"
    /\ UNCHANGED <<clockVars, loopVars, attempt_counter, healthy_gauge, probeVars,
                   mainVars, scraped, histVars>>

\* time.sleep(0.1) begins; the locals of the tick are dead from here on
Sleep ==
    /\ ProcessAlive
    /\ pc = "sleep"
    /\ deadline' = mono + SleepTicks
    /\ healthy' = "unset"
    /\ outcome' = "none"
    /\ pc' = "sleeping"
    /\ UNCHANGED <<clockVars, start_time, time_since_last_ping, last_time, sinkVars,
                   exc, sockOpen, ping_packet, pong_packet, mainVars, scraped, histVars>>

\* time.sleep(0.1) returns
Wake ==
    /\ ProcessAlive
    /\ pc = "sleeping"
    /\ mono >= deadline
    /\ slept' = TRUE
    /\ pc' = "while"
    /\ UNCHANGED <<clockVars, loopVars, sinkVars, probeVars, mainVars, scraped,
                   probe_started_at>>


\* ------------------------------------------------------------- environment
\* The scheduler thread is blocked: its sleep or recvfrom is not yet due.
ThreadWaits == pc \in {"sleeping", "recv"} /\ mono < deadline

\* One tick (0.1 s) passes on both clocks.
Advance ==
    /\ mono' = mono + 1
    /\ wall' = wall + 1
    /\ UNCHANGED <<pc, loopVars, sinkVars, probeVars, mainVars, scraped, histVars>>

\* Time passes while the scheduler thread is blocked.
Tick ==
    /\ ProcessAlive
    /\ ThreadWaits
    /\ mono < MaxClock
    /\ Advance

\* How far the wall clock w is ahead of the monotonic clock, in ticks.
WallDrift(w) == w - WallBase - mono

\* The system wall clock is set forwards or backwards; time.monotonic() is
\* not affected.
AdjustWallClock ==
    /\ ProcessAlive
    /\ \E d \in {-ClockJump, ClockJump} :
          /\ wall' = wall + d
          /\ WallDrift(wall') \in -ClockJump..ClockJump
    /\ UNCHANGED <<mono, pc, loopVars, sinkVars, probeVars, mainVars, scraped, histVars>>

\* ------------------------------------------------- signal handler and main
\* _signal_handler: if shutdown.is_set(): exit(1) -- SystemExit is raised in
\* the main thread, and the interpreter then waits for the non-daemon
\* scheduler thread before the process ends; else shutdown.set()
SignalHandler ==
    /\ ProcessAlive
    /\ mainPc # "unwind"
    /\ IF shutdown
          THEN /\ mainPc' = "unwind"
               /\ UNCHANGED <<shutdown, sigPc>>
          ELSE /\ shutdown' = TRUE
               /\ sigPc' = pc
               /\ UNCHANGED mainPc
    /\ UNCHANGED <<clockVars, pc, loopVars, sinkVars, probeVars, serverUp, scraped, histVars>>

\* shutdown.wait() returns
MainWait ==
    /\ mainPc = "wait"
    /\ shutdown
    /\ mainPc' = "server_shutdown"
    /\ UNCHANGED <<clockVars, pc, loopVars, sinkVars, probeVars, shutdown, sigPc,
                   serverUp, scraped, histVars>>

\* server.shutdown(); server_thread.join()
ServerShutdown ==
    /\ mainPc = "server_shutdown"
    /\ serverUp' = FALSE
    /\ mainPc' = "thread_join"
    /\ UNCHANGED <<clockVars, pc, loopVars, sinkVars, probeVars, shutdown, sigPc,
                   scraped, histVars>>

\* main without healthcheck_thread.join(): returns as soon as the server is down.
ThreadJoin_NoWait ==
    /\ mainPc = "thread_join"
    /\ mainPc' = "exit0"
    /\ UNCHANGED <<clockVars, pc, loopVars, sinkVars, probeVars, shutdown, sigPc,
                   serverUp, scraped, histVars>>

\* healthcheck_thread.join() returns and main returns: exit code 0
ThreadJoin ==
    /\ mainPc = "thread_join"
    /\ ThreadEnded
    /\ mainPc' = "exit0"
    /\ UNCHANGED <<clockVars, pc, loopVars, sinkVars, probeVars, shutdown, sigPc,
                   serverUp, scraped, histVars>>

\* after exit(1): interpreter shutdown has waited for the scheduler thread
SystemExit ==
    /\ mainPc = "unwind"
    /\ ThreadEnded
    /\ mainPc' = "exit1"
    /\ serverUp' = FALSE
    /\ UNCHANGED <<clockVars, pc, loopVars, sinkVars, probeVars, shutdown, sigPc,
                   scraped, histVars>>

\* ------------------------------------------------------------ metrics scrape
\* The metrics server started by prometheus_client.start_http_server answers
\* a scrape.  The scrape is taken as one snapshot of both gauges, the most
\* favourable reading for the writer; the third field tells whether a probe
\* outcome had been recorded before.
Scrape ==
    /\ ProcessAlive
    /\ serverUp
    /\ scraped' = <<healthy_gauge, unhealthy_gauge, IF outcomes > 0 THEN 1 ELSE 0>>
    /\ scraped' # scraped
    /\ UNCHANGED <<clockVars, pc, loopVars, sinkVars, probeVars, mainVars, histVars>>

\* ------------------------------------------------------------ specification
SendErrors == {"ConnectionRefusedError", "OSError"}

SchedulerStep ==
    \/ ThreadStart
    \/ LoopTest
    \/ Countdown
    \/ MarkAttempt
    \/ OpenSocket
    \/ BuildFrame
    \/ SendOk
    \/ \E e \in SendErrors : SendRaises(e)
    \/ RecvReply
    \/ \E e \in SendErrors : RecvRaises(e)
    \/ RecvTimeout
    \/ CheckPong
    \/ CloseSocket
    \/ ExceptHandler
    \/ MarkHealthySetHealthy
    \/ MarkHealthySetUnhealthy
    \/ MarkUnhealthySetHealthy
    \/ MarkUnhealthySetUnhealthy
    \/ Sleep
    \/ Wake

Next ==
    \/ SchedulerStep
    \/ Tick
    \/ AdjustWallClock
    \/ SignalHandler
    \/ MainWait
    \/ ServerShutdown
    \/ ThreadJoin
    \/ SystemExit
    \/ Scrape

Spec == Init /\ [][Next]_vars


\* --------------------------------------- scenario: the target is unreachable
\* Whole ticks within the scenario's run time: 5.05 s lies between tick 50
\* and tick 51.
RunTicks == ScenarioMs \div TickMs

\* Time passes while the scheduler thread is blocked, up to the tick after
\* the scenario's run time.
RunTick ==
    /\ ThreadWaits
    /\ mono <= RunTicks
    /\ Advance

\* Time passes after the scheduler thread has ended.
IdleTick ==
    /\ ThreadEnded
    /\ mono <= RunTicks
    /\ Advance

\* No datagram ever comes back: every recvfrom ends in ConnectionRefusedError
\* (ICMP port unreachable) or in the timeout.  No signal, no scrape, no clock
\* adjustment.
NextUnreachable ==
    \/ ThreadStart
    \/ LoopTest
    \/ Countdown
    \/ MarkAttempt
    \/ OpenSocket
    \/ BuildFrame
    \/ SendOk
    \/ RecvRaises("ConnectionRefusedError")
    \/ RecvTimeout
    \/ CloseSocket
    \/ ExceptHandler
    \/ MarkUnhealthySetHealthy
    \/ MarkUnhealthySetUnhealthy
    \/ Sleep
    \/ Wake
    \/ RunTick
    \/ IdleTick

SpecUnreachable == Init /\ [][NextUnreachable]_vars

\* ------------------------------------------------------------------ claims
\* The scheduler is between probes (or has ended) and has started at least one.
ProbeOver ==
    /\ attempt_counter > 0
    /\ pc \in {"sleep", "sleeping", "while", "body", "attempt", "done", "crashed"}

\* C1: once a probe is over, whatever its outcome, the attempt counter has
\* gone up by exactly one for it (so it equals the number of recorded
\* outcomes, plus the one probe that ended the thread if it did), and exactly
\* one of the healthy / unhealthy gauges is 1 and the other 0.
C1_EveryProbeRecorded ==
    ProbeOver =>
        /\ attempt_counter = outcomes + (IF pc = "crashed" THEN 1 ELSE 0)
        /\ healthy_gauge + unhealthy_gauge = 1

\* C2: a metrics scrape never reads both gauges as 1, and once the first probe
\* outcome has been recorded it never reads a half-applied pair (both 0 or
\* both 1).
C2_ScrapeNeverHalfApplied ==
    scraped[1] # -1 =>
        /\ ~(scraped[1] = 1 /\ scraped[2] = 1)
        /\ scraped[3] = 1 => scraped[1] + scraped[2] = 1

\* Positions of the scheduler from the end of ping_bedrock to the polling
\* sleep of a tick whose probe is recorded unhealthy.
UnhealthyPath == {"finally", "except", "result", "mark_unhealthy_2", "sleep"}

\* C3: a probe that got no reply before the socket timeout is recorded
\* unhealthy (healthy = 0, unhealthy = 1) and the loop goes on to its polling
\* sleep.
C3_TimeoutIsUnhealthy ==
    outcome = "timeout" =>
        /\ pc \in UnhealthyPath
        /\ pc = "sleep" => healthy_gauge = 0 /\ unhealthy_gauge = 1

\* C4: no probe failure stops the monitor: while shutdown has not been
\* requested the scheduler thread is alive after every probe outcome.
C4_MonitorSurvives ==
    ~shutdown => pc # "crashed"

\* C5: connection-refused from send or receive is caught in the loop: the
\* thread does not end, the tick is recorded unhealthy (healthy = 0,
\* unhealthy = 1) and the loop reaches its polling sleep.
C5_RefusedIsUnhealthy ==
    outcome = "refused" =>
        /\ pc \in UnhealthyPath
        /\ pc = "result" => healthy = "False" /\ exc = "none"
        /\ pc = "sleep" => healthy_gauge = 0 /\ unhealthy_gauge = 1

C5_Witness ==
    /\ outcome = "refused"
    /\ pc = "sleep"
    /\ healthy_gauge = 0
    /\ unhealthy_gauge = 1

\* C6: after a probe that failed with a transport fault other than
\* connection-refused the gauges read healthy = 0 and unhealthy = 1.
C6_FaultIsUnhealthy ==
    (outcome = "fault" /\ pc \in {"sleep", "crashed"}) =>
        healthy_gauge = 0 /\ unhealthy_gauge = 1

\* C7: for every received datagram, of every length including zero, the
\* response check never raises and yields true exactly when the first byte
\* is 0x1C (false for the empty datagram).
C7_ResponseCheckTotal ==
    [][(pc = "check" /\ pc' # "check") =>
          /\ exc' = "none"
          /\ healthy' = IF Len(pong_packet) > 0 /\ pong_packet[1] = PONG
                           THEN "True" ELSE "False"]_vars

RECURSIVE DecodeLittleEndian(_)
DecodeLittleEndian(bytes) ==
    IF bytes = <<>> THEN 0 ELSE Head(bytes) + 256 * DecodeLittleEndian(Tail(bytes))

\* C8: for every start_time and every reading of the clock the probe builder
\* returns, without raising, 33 bytes: byte 0 is 0x01, bytes 1-8 the 64-bit
\* little-endian milliseconds since start_time, bytes 9-24 the magic.
C8_FrameAlwaysBuilt ==
    [][(pc = "build" /\ pc' # "build") =>
          /\ exc' = "none"
          /\ Len(ping_packet') = FrameLen
          /\ ping_packet'[1] = PING
          /\ DecodeLittleEndian(SubSeq(ping_packet', 2, 9)) = wall * TickMs - start_time
          /\ SubSeq(ping_packet', 10, 25) = MAGIC]_vars

\* C9: against an unreachable target exactly 5 attempts have been recorded
\* when 5.05 s of run time have passed (the state at tick 50 in which the
\* scheduler has nothing left to do before time moves on).
C9_FiveAttempts ==
    (mono = RunTicks /\ (ThreadWaits \/ ThreadEnded)) => attempt_counter = 5

\* C10: when the shutdown event is set during the polling sleep, the
\* scheduler only finishes that sleep (at most one polling interval is left
\* of it), tests the event and ends: it never reaches mark_attempt or a probe
\* again.
C10_ShutdownDuringSleep ==
    sigPc = "sleeping" =>
        /\ pc \in {"sleeping", "while", "done"}
        /\ pc = "sleeping" => deadline - mono \in 0..SleepTicks
        /\ pc = "while" => mono = deadline

C10_Witness ==
    /\ sigPc = "sleeping"
    /\ pc = "done"
    /\ attempt_counter > 0


\* C11: in every interleaving of the signal handler with the scheduler, no
\* probe is started (no mark_attempt) once the shutdown event has been set.
C11_NoProbeAfterShutdown ==
    [][shutdown => attempt_counter' = attempt_counter]_vars

\* C11, amended: with the shutdown event set, the scheduler is between the
\* loop test and mark_attempt only when the event was set after the loop test
\* of that same iteration had passed; so at most the probe of the iteration
\* under way starts after the event was set, and none after the next loop
\* test.
C11_OnlyTheIterationUnderWay ==
    shutdown =>
        /\ pc = "body" => sigPc = "body"
        /\ pc = "attempt" => sigPc \in {"body", "attempt"}

C11_Witness ==
    /\ shutdown
    /\ sigPc = "body"
    /\ pc = "socket"
    /\ probe_started_at = mono


\* C12: the first signal only sets the shutdown event, and the process then
\* ends with exit code 0 through main's joins; a second signal while the event
\* is set ends the process with a non-zero exit code immediately, without
\* waiting for the scheduler thread: no time passes between the handler's
\* exit(1) and the end of the process.
C12_SecondSignalExitsAtOnce ==
    [][/\ (~shutdown /\ shutdown') => (mainPc' = mainPc /\ pc' = pc)
       /\ mainPc' = "exit0" => mainPc = "thread_join"
       /\ mainPc' = "exit1" => mainPc = "unwind"
       /\ mainPc = "unwind" => mono' = mono]_vars


\* C13: on graceful shutdown main returns only after both other threads have
\* stopped: whenever main has returned (exit code 0) the metrics server has
\* been shut down and joined and the scheduler thread has terminated.
C13_MainReturnsAfterJoins ==
    mainPc = "exit0" => (~serverUp /\ ThreadEnded)

C13_Witness ==
    /\ mainPc = "exit0"
    /\ pc = "done"
    /\ ~serverUp
    /\ attempt_counter > 0


\* ------------------------------------------------ shutdown under fairness
\* Time passes while the scheduler thread is blocked; once shutdown has been
\* requested the clock is followed past MaxClock, until the thread has ended.
LiveTick ==
    /\ ProcessAlive
    /\ ThreadWaits
    /\ mono < MaxClock \/ shutdown
    /\ Advance

NextShutdown ==
    \/ SchedulerStep
    \/ LiveTick
    \/ AdjustWallClock
    \/ SignalHandler
    \/ MainWait
    \/ ServerShutdown
    \/ ThreadJoin
    \/ SystemExit

\* The scheduler thread is scheduled and time passes (a blocked sleep or
\* recvfrom comes to its end); main is scheduled; server.shutdown() returns.
FairShutdown ==
    /\ WF_vars(SchedulerStep \/ LiveTick)
    /\ WF_vars(MainWait)
    /\ WF_vars(ServerShutdown)
    /\ WF_vars(ThreadJoin)
    /\ WF_vars(SystemExit)

SpecShutdown == Init /\ [][NextShutdown]_vars /\ FairShutdown

\* C14: once the shutdown event has been set the scheduler thread eventually
\* terminates and main eventually returns (the process ends), also when a
\* probe is in flight and the target never replies.
C14_ShutdownTerminates ==
    shutdown ~> (ThreadEnded /\ ~ProcessAlive)

C14_Witness ==
    /\ sigPc = "recv"
    /\ exc = "TimeoutError"
    /\ pc = "crashed"
    /\ mainPc = "exit0"


\* Positions of the scheduler inside ping_bedrock, between socket.socket()
\* and sock.close().
InProbe == {"build", "send", "recv", "check", "finally"}

\* C15: a probe socket is open only while the scheduler is inside
\* ping_bedrock, so a new one is opened only when none is open (at most one
\* probe in flight, at most one socket open), and every way out of
\* ping_bedrock (pong, other reply, timeout, connection refused, any other
\* exception) has closed it: none is open during the polling sleep or after
\* the thread has ended.
C15_SocketScoped ==
    /\ sockOpen => pc \in InProbe
    /\ pc \in {"build", "send", "recv", "check"} => sockOpen

C15_Witness ==
    /\ pc = "crashed"
    /\ exc = "TimeoutError"
    /\ ~sockOpen
    /\ attempt_counter = 1


\* C16: an adjustment of the system wall clock, forwards or backwards, is
\* tolerated: it changes nothing of the countdown (so not the tick of the
\* next probe), and the probe that is started next is still built and handed
\* to sendto.
C16_WallClockTolerated ==
    [][/\ (wall' - wall # mono' - mono) =>
              UNCHANGED <<pc, time_since_last_ping, last_time, deadline>>
       /\ (pc = "build" /\ pc' # "build") => pc' = "send"]_vars


\* Positions of the scheduler outside a probe: before mark_attempt of a tick,
\* after its outcome was recorded, or ended.
BetweenProbes == {"sleep", "sleeping", "while", "body", "attempt", "done", "crashed"}

\* C17: on each wakeup the countdown goes down by the monotonic time elapsed
\* since the previous wakeup; at or below zero it is reset to the period and
\* exactly one probe is performed (one mark_attempt, one outcome recorded, no
\* retry), above zero no probe is performed on that wakeup.
C17_OneProbePerExpiry ==
    [][/\ (pc = "body" /\ pc' # "body") =>
              LET left == time_since_last_ping - (mono - last_time)
              IN /\ last_time' = mono
                 /\ IF left <= 0
                       THEN time_since_last_ping' = PeriodTicks /\ pc' = "attempt"
                       ELSE time_since_last_ping' = left /\ pc' = "sleep"
       /\ attempt_counter' # attempt_counter =>
              (pc = "attempt" /\ attempt_counter' = attempt_counter + 1)
       /\ pc' \in BetweenProbes => outcomes' = attempt_counter']_vars


\* ------------------------------------------------ scheduler with late wakeups
\* Time passes while the scheduler thread is blocked; a time.sleep(0.1) may
\* return up to MaxOversleep ticks late (the thread is not scheduled).
JitterTick ==
    /\ \/ ThreadWaits
       \/ pc = "sleeping" /\ mono < deadline + MaxOversleep
    /\ mono < JitterClock
    /\ Advance

NextJitter ==
    \/ SchedulerStep
    \/ JitterTick

SpecJitter == Init /\ [][NextJitter]_vars

\* C18: missed periods are never caught up: whenever a probe starts after an
\* earlier one, at least one period (1.0 s) of monotonic time has passed since
\* the earlier probe started and a polling sleep has returned in between,
\* also after a long probe or a late wakeup.
C18_ProbesAPeriodApart ==
    [][(attempt_counter' # attempt_counter /\ attempt_counter > 0) =>
          /\ mono - probe_started_at >= PeriodTicks
          /\ slept]_vars

\* The second probe started more than two periods after the first (a late
\* wakeup), and the third is about to start.
C18_Witness ==
    /\ attempt_counter = 2
    /\ probe_started_at > 2 * PeriodTicks
    /\ pc = "attempt"
    /\ mono >= probe_started_at + PeriodTicks


\* C19: the countdown starts at zero, so the first probe starts on the first
\* loop iteration, at the time the thread started and before any polling
\* sleep; and when the shutdown event was set before the thread ran its first
\* statement, the loop body never runs and no attempt is recorded.
C19_FirstProbeAtOnce ==
    /\ attempt_counter = 1 => probe_started_at = 0
    /\ (attempt_counter = 1 /\ pc \in InProbe \cup {"socket"}) => ~slept
    /\ sigPc = "start" => (attempt_counter = 0 /\ pc \in {"start", "while", "done"})

C19_Witness ==
    /\ sigPc = "start"
    /\ pc = "done"
    /\ attempt_counter = 0
    /\ outcomes = 0

\* C20: the attempt counter counts probes started: it never decreases, it has
\* been raised before the datagram is sent, and the number of recorded
\* outcomes is equal to it or one less; the health state is written by steps
\* of the scheduler thread only and not at all once that thread has ended.
C20_AttemptsCountStarts ==
    [][/\ attempt_counter' >= attempt_counter
       /\ outcomes' \in {attempt_counter' - 1, attempt_counter'}
       /\ pc' \in {"socket", "build", "send", "recv"} => attempt_counter' = outcomes' + 1
       /\ sinkVars' # sinkVars => (pc' # pc /\ ~ThreadEnded)]_vars

C20_Witness ==
    /\ pc = "crashed"
    /\ attempt_counter = 2
    /\ outcomes = 1

====
